---- MODULE Spec2Model ----
(***************************************************************************)
(* Rolling window (core/collection) and adaptive breaker (core/breaker).   *)
(* Time is counted in clock ticks; one bucket interval is 2*HalfInterval   *)
(* ticks, so that "half an interval" is a whole number of ticks.           *)
(***************************************************************************)
EXTENDS Integers, Naturals, Sequences, FiniteSets, TLC

\* ---------------------------------------------------------------- bounds
MaxSize == 3            \* window sizes 1..MaxSize are constructed
HalfInterval == 1       \* ticks in half a bucket interval
MaxStart == 1           \* the window is constructed at clock 0..MaxStart
MaxTime == 9            \* the clock of the window specification stops here
MaxSamples == 3         \* samples held by a window of the window specification
MaxReadGap == 1         \* ticks that may pass between two clock reads of one Add
buckets == 2            \* the breaker's window size (40 in googlebreaker.go, scaled down)
MaxBreakerTime == 5     \* the clock of the breaker specifications stops here
MaxBreakerSamples == 8  \* samples held by the breaker's window
MaxReqTicks == 1        \* ticks a wrapped request may take
NumProcs == 2           \* goroutines that call Add and Reduce concurrently
MaxConcAdds == 3        \* Add calls started in the concurrent specification
MaxLoggedTime == 1       \* the clock of the logged breaker specification stops here
MaxLogged == 7          \* reasons added in the error window specification
MaxCalls == 9           \* doReq calls counted in the tallied breaker specification

\* ---------------------------------------------------------------- program constants
protection == 5         \* googlebreaker.go: protection
k2 == 3                 \* googlebreaker.go: twice k (k = 1.5)
numHistoryReasons == 5  \* breaker.go: numHistoryReasons

interval == 2 * HalfInterval

VARIABLES
    now,            \* the monotonic clock (timex.Now)
    initTime,       \* clock value at construction
    size,           \* rw.size
    ignoreCurrent,  \* rw.ignoreCurrent
    offset,         \* rw.offset
    lastTime,       \* rw.lastTime
    win,            \* rw.win.buckets: index -> [Sum, Count]
    stamps,         \* history: index -> clock times of the samples the bucket holds
                    \* (kept by SpecHistory only)
    red,            \* what the last Reduce handed to fn (cleared by Add)
    ret,            \* what the last breaker call did and returned (cleared by the clock)
    errWin,         \* loggedThrottle.errWin: [reasons, index, count]
    held,           \* the Promise the caller got from its last Allow
    rwlock,         \* rw.lock: [writer, readers] (used by SpecConc only)
    pc,             \* goroutine -> the statement it is at (used by SpecConc only)
    loc,            \* goroutine -> its local variables (used by SpecConc only)
    ewLog,          \* history: every entry added to errWin (kept by SpecErrWin only)
    tally           \* history: doReq calls counted (kept by SpecTally), the time of the
                    \* last sample (kept by SpecIdle)

vars == <<now, initTime, size, ignoreCurrent, offset, lastTime, win, stamps, red, ret,
          errWin, held, rwlock, pc, loc, ewLog, tally>>

\* the variables the sequential specifications leave alone
aux == <<rwlock, pc, loc, ewLog, tally>>

\* ---------------------------------------------------------------- Bucket / window
NewBucket == [Sum |-> 0, Count |-> 0]

BucketAdd(b, v) == [Sum |-> b.Sum + v, Count |-> b.Count + 1]

BucketReset(b) == [Sum |-> 0, Count |-> 0]

newWindow(sz) == [i \in 0..(sz - 1) |-> NewBucket]

windowAdd(w, sz, off, v) == [w EXCEPT ![off % sz] = BucketAdd(w[off % sz], v)]

resetBucket(w, sz, off) == [w EXCEPT ![off % sz] = BucketReset(w[off % sz])]

\* window.reduce: the indices of the buckets handed to fn, in call order
RECURSIVE reduceFrom(_, _, _, _)
reduceFrom(sz, start, count, i) ==
    IF i < count THEN <<(start + i) % sz>> \o reduceFrom(sz, start, count, i + 1)
    ELSE <<>>

windowReduce(sz, start, count) == reduceFrom(sz, start, count, 0)

\* ---------------------------------------------------------------- RollingWindow
\* faulty variant: a span beyond the window wraps around instead of stopping at size
spanWrapping(t) ==
    LET n == (t - lastTime) \div interval
    IN IF 0 <= n THEN n % size ELSE size

\* span() with the clock reading t
span(t) ==
    LET n == (t - lastTime) \div interval
    IN IF 0 <= n /\ n < size THEN n ELSE size

\* the reset loop of updateOffset: buckets (off+1) .. (off+sp), modulo size
RECURSIVE resetLoop(_, _, _, _)
resetLoop(w, off, sp, i) ==
    IF i < sp THEN resetLoop(resetBucket(w, size, (off + i + 1) % size), off, sp, i + 1)
    ELSE w

RECURSIVE clearLoop(_, _, _, _)
clearLoop(s, off, sp, i) ==
    IF i < sp THEN clearLoop([s EXCEPT ![((off + i + 1) % size) % size] = {}], off, sp, i + 1)
    ELSE s

\* the realignment of lastTime, with the clock reading t
alignLastTime(t) == t - ((t - lastTime) % interval)

\* updateOffset(): t1 is the clock read by span(), t2 the clock read by timex.Now()
updateOffset(t1, t2) ==
    LET sp == span(t1)
    IN IF sp <= 0
       THEN [offset |-> offset, lastTime |-> lastTime, win |-> win, stamps |-> stamps]
       ELSE [offset |-> (offset + sp) % size,
             lastTime |-> alignLastTime(t2),
             win |-> resetLoop(win, offset, sp, 0),
             stamps |-> clearLoop(stamps, offset, sp, 0)]

RECURSIVE SumOver(_, _)
SumOver(f, S) ==
    IF S = {} THEN 0
    ELSE LET x == CHOOSE y \in S : TRUE IN f[x] + SumOver(f, S \ {x})

TotalCount == SumOver([i \in DOMAIN win |-> win[i].Count], DOMAIN win)

NoReduce == [valid |-> FALSE, time |-> 0, span |-> 0, visited |-> <<>>,
             samples |-> {}, sum |-> 0, count |-> 0, again |-> FALSE, prevSpan |-> 0]

NoCall == [op |-> "none"]

\* Add(v): updateOffset, then win.add. span() reads the clock at t1; when it goes on,
\* timex.Now() reads the clock again, gap ticks later.
addResult(v, t1, gap) ==
    LET t2 == IF span(t1) <= 0 THEN t1 ELSE t1 + gap
        u == updateOffset(t1, t2)
    IN [now |-> t2, offset |-> u.offset, lastTime |-> u.lastTime,
        win |-> windowAdd(u.win, size, u.offset, v),
        stamps |-> [u.stamps EXCEPT ![u.offset % size] = @ \cup {t2}]]

\* the clock gaps that matter to an Add whose span() reads the clock at t
ReadGaps(t) == IF span(t) <= 0 THEN {0} ELSE 0..MaxReadGap

\* Add(v); the sample history is kept when recorded is set
AddSample(v, recorded) ==
    /\ TotalCount < MaxSamples
    /\ \E gap \in ReadGaps(now) :
           LET a == addResult(v, now, gap)
           IN /\ a.now <= MaxTime
              /\ now' = a.now
              /\ offset' = a.offset
              /\ lastTime' = a.lastTime
              /\ win' = a.win
              /\ stamps' = IF recorded THEN a.stamps ELSE stamps
    /\ red' = NoReduce
    /\ UNCHANGED <<initTime, size, ignoreCurrent, ret, errWin, held>>
    /\ UNCHANGED aux

Add(v) == AddSample(v, FALSE)

AddRecorded(v) == AddSample(v, TRUE)

RECURSIVE FoldSum(_, _), FoldCount(_, _), FoldStamps(_, _)
FoldSum(visited, i) ==
    IF i > Len(visited) THEN 0 ELSE win[visited[i]].Sum + FoldSum(visited, i + 1)
FoldCount(visited, i) ==
    IF i > Len(visited) THEN 0 ELSE win[visited[i]].Count + FoldCount(visited, i + 1)
FoldStamps(visited, i) ==
    IF i > Len(visited) THEN {} ELSE stamps[visited[i]] \cup FoldStamps(visited, i + 1)

\* faulty variant: the bucket being written is left out whatever the option says
reduceDiffSkipCurrent(sp) == IF sp = 0 THEN size - 1 ELSE size - sp

\* the range Reduce selects
reduceDiff(sp) == IF sp = 0 /\ ignoreCurrent THEN size - 1 ELSE size - sp

\* faulty variant: the range starts at the bucket just written, one slot early
reduceStartAtOffset(sp) == (offset + sp) % size

reduceStart(sp) == (offset + sp + 1) % size

\* Reduce(fn) with the clock reading t: the buckets handed to fn, in call order, and
\* what a summing fn (history's) accumulates over them
ReduceResult(t) ==
    LET sp == span(t)
        diff == reduceDiff(sp)
        visited == IF diff > 0 THEN windowReduce(size, reduceStart(sp), diff) ELSE <<>>
    IN [valid |-> TRUE, time |-> t, span |-> sp, visited |-> visited,
        samples |-> FoldStamps(visited, 1),
        sum |-> FoldSum(visited, 1), count |-> FoldCount(visited, 1),
        again |-> red.valid, prevSpan |-> IF red.valid THEN red.span ELSE 0]

\* faulty variant: Reduce brings offset and lastTime up to date first, as Add does
ReduceUpdating ==
    /\ red' = ReduceResult(now)
    /\ offset' = updateOffset(now, now).offset
    /\ lastTime' = updateOffset(now, now).lastTime
    /\ win' = updateOffset(now, now).win
    /\ UNCHANGED <<now, initTime, size, ignoreCurrent, stamps, ret, errWin, held>>
    /\ UNCHANGED aux

\* faulty variant: Reduce empties the buckets it has handed to fn
ReduceDraining ==
    /\ red' = ReduceResult(now)
    /\ win' = [i \in DOMAIN win |->
                 IF \E n \in 1..Len(red'.visited) : red'.visited[n] = i
                 THEN NewBucket ELSE win[i]]
    /\ UNCHANGED <<now, initTime, size, ignoreCurrent, offset, lastTime, stamps, ret,
                   errWin, held>>
    /\ UNCHANGED aux

Reduce ==
    /\ red' = ReduceResult(now)
    /\ UNCHANGED <<now, initTime, size, ignoreCurrent, offset, lastTime, win, stamps, ret,
                   errWin, held>>
    /\ UNCHANGED aux

\* the clock advances by one tick, up to limit
Advance(limit) ==
    /\ now < limit
    /\ now' = now + 1
    /\ ret' = NoCall
    /\ UNCHANGED <<initTime, size, ignoreCurrent, offset, lastTime, win, stamps, red,
                   errWin, held>>
    /\ UNCHANGED aux

Tick == Advance(MaxTime)

\* NewRollingWindow(size, interval, opts...) at clock t
NewRollingWindow(sz, ic, t) ==
    /\ sz >= 1
    /\ now = t
    /\ initTime = t
    /\ size = sz
    /\ ignoreCurrent = ic
    /\ offset = 0
    /\ lastTime = t
    /\ win = newWindow(sz)
    /\ stamps = [i \in 0..(sz - 1) |-> {}]
    /\ red = NoReduce

\* new(errorWindow)
newErrorWindow ==
    [reasons |-> [i \in 0..(numHistoryReasons - 1) |-> <<>>], index |-> 0, count |-> 0]

Procs == 1..NumProcs

\* adds is history: the Add calls the goroutine has completed
NoLocals == [v |-> 0, span |-> 0, visited |-> <<>>, sum |-> 0, count |-> 0, adds |-> 0]

NoTally == [calls |-> 0, successes |-> 0, first |-> -1, last |-> -1, before |-> 0]

\* no goroutine is inside a call, and the histories are empty
NoAux ==
    /\ rwlock = [writer |-> 0, readers |-> {}]
    /\ pc = [p \in Procs |-> "idle"]
    /\ loc = [p \in Procs |-> NoLocals]
    /\ ewLog = <<>>
    /\ tally = NoTally

\* the caller holds no Promise
NoPromise == [promise |-> "none"]

\* nothing has been called yet, and no breaker wraps the window
NoBreaker ==
    /\ ret = NoCall
    /\ errWin = newErrorWindow
    /\ held = NoPromise
    /\ NoAux

Init ==
    /\ \E sz \in 1..MaxSize, ic \in BOOLEAN, t \in 0..MaxStart : NewRollingWindow(sz, ic, t)
    /\ NoBreaker

AddFailure == Add(0)

AddSuccess == Add(1)

Next == Tick \/ AddFailure \/ AddSuccess \/ Reduce

Spec == Init /\ [][Next]_vars

\* the same window, with the clock time of every sample it holds kept in stamps
AddFailureRecorded == AddRecorded(0)

AddSuccessRecorded == AddRecorded(1)

NextHistory == Tick \/ AddFailureRecorded \/ AddSuccessRecorded \/ Reduce

SpecHistory == Init /\ [][NextHistory]_vars

\* ---------------------------------------------------------------- googleBreaker
ErrServiceUnavailable == "circuit breaker is open"

\* history(): accepts and total over the buckets Reduce visits (every Sum is a whole
\* number of successes, so int64(b.Sum) loses nothing)
history(t) ==
    LET r == ReduceResult(t) IN [accepts |-> r.sum, total |-> r.count]

\* faulty variant: the protection threshold is left out of the numerator
dropNum2NoProtection(accepts, total) == 2 * total - (k2 + 2 * accepts)

\* faulty variant: the accepts are left out of weightedAccepts
dropNum2NoAccepts(accepts, total) == 2 * (total - protection) - k2

\* faulty variant: k is taken as 0.5
dropNum2SmallK(accepts, total) == 2 * (total - protection) - (1 + 2 * accepts)

\* twice the numerator of dropRatio: 2*((total - protection) - (k + accepts))
dropNum2(accepts, total) == 2 * (total - protection) - (k2 + 2 * accepts)

\* twice the denominator of dropRatio
dropDen2(total) == 2 * (total + 1)

\* proba.TrueOnProba(num/den): the answers the sampler may give
TrueOnProba(num, den) ==
    IF num <= 0 THEN {FALSE} ELSE IF num >= den THEN {TRUE} ELSE BOOLEAN

\* accept() with the clock reading t: every outcome it may have
accept(t) ==
    LET h == history(t)
        n == dropNum2(h.accepts, h.total)
        d == dropDen2(h.total)
    IN IF n <= 0
       THEN {[accepts |-> h.accepts, total |-> h.total, num |-> n, den |-> d,
              sampled |-> FALSE, err |-> "nil"]}
       ELSE {[accepts |-> h.accepts, total |-> h.total, num |-> n, den |-> d,
              sampled |-> TRUE, err |-> IF drop THEN ErrServiceUnavailable ELSE "nil"]
                : drop \in TrueOnProba(n, d)}

\* the wrapped requests: return nil, return an error, or panic
Requests == {"nil", "e1", "panic"}

\* the fallbacks: none, or one that answers with an error of its own
Fallbacks == {"none", "fallback"}

ApplyFallback(fallback, err) == <<"fallback", err>>

\* the acceptable functions: defaultAcceptable, and one that whitelists every error
Acceptables == {"default", "whitelist"}

\* defaultAcceptable
defaultAcceptable(err) == err = "nil"

ApplyAcceptable(acceptable, err) ==
    IF acceptable = "default" THEN defaultAcceptable(err) ELSE TRUE

\* the sample markSuccess / markFailure add
markSuccess == 1

markFailure == 0

\* faulty variant: the rejected path never consults the fallback
doReqRejectedNoFallback(a, fallback) ==
    [op |-> "doReq", accept |-> a, reqCalls |-> 0, req |-> "none",
     fbCalls |-> 0, fallback |-> fallback, acceptable |-> "none",
     added |-> <<markFailure>>, panicked |-> FALSE, err |-> <<a.err>>]

\* faulty variant: the rejected path records a success
doReqRejectedMarksSuccess(a, fallback) ==
    [op |-> "doReq", accept |-> a, reqCalls |-> 0, req |-> "none",
     fbCalls |-> IF fallback # "none" THEN 1 ELSE 0,
     fallback |-> fallback, acceptable |-> "none",
     added |-> <<markSuccess>>, panicked |-> FALSE,
     err |-> IF fallback # "none" THEN ApplyFallback(fallback, a.err) ELSE <<a.err>>]

\* doReq, rejected by accept(): markFailure, then the fallback if there is one
doReqRejected(a, fallback) ==
    [op |-> "doReq", accept |-> a, reqCalls |-> 0, req |-> "none",
     fbCalls |-> IF fallback # "none" THEN 1 ELSE 0,
     fallback |-> fallback, acceptable |-> "none",
     added |-> <<markFailure>>, panicked |-> FALSE,
     err |-> IF fallback # "none" THEN ApplyFallback(fallback, a.err) ELSE <<a.err>>]

\* faulty variant: the outcome is classified by err == nil, whatever acceptable says
doReqAdmittedErrNil(a, req, fallback, acceptable) ==
    [op |-> "doReq", accept |-> a, reqCalls |-> 1, req |-> req,
     fbCalls |-> 0, fallback |-> fallback, acceptable |-> acceptable,
     added |-> <<IF req = "nil" THEN markSuccess ELSE markFailure>>,
     panicked |-> (req = "panic"),
     err |-> IF req = "panic" THEN <<>> ELSE <<req>>]

\* faulty variant: success starts out true, so a panicking request is marked a success
doReqAdmittedSuccessFirst(a, req, fallback, acceptable) ==
    LET success == IF req = "panic" THEN TRUE ELSE ApplyAcceptable(acceptable, req)
    IN [op |-> "doReq", accept |-> a, reqCalls |-> 1, req |-> req,
        fbCalls |-> 0, fallback |-> fallback, acceptable |-> acceptable,
        added |-> <<IF success THEN markSuccess ELSE markFailure>>,
        panicked |-> (req = "panic"),
        err |-> IF req = "panic" THEN <<>> ELSE <<req>>]

\* doReq, admitted by accept(): req(), acceptable(err), the deferred mark
doReqAdmitted(a, req, fallback, acceptable) ==
    LET success == IF req = "panic" THEN FALSE ELSE ApplyAcceptable(acceptable, req)
    IN [op |-> "doReq", accept |-> a, reqCalls |-> 1, req |-> req,
        fbCalls |-> 0, fallback |-> fallback, acceptable |-> acceptable,
        added |-> <<IF success THEN markSuccess ELSE markFailure>>,
        panicked |-> (req = "panic"),
        err |-> IF req = "panic" THEN <<>> ELSE <<req>>]

\* the window after a call's Add(v), its span() reading the clock at t
Mark(v, t, limit) ==
    \E gap \in ReadGaps(t) :
        LET a == addResult(v, t, gap)
        IN /\ a.now <= limit
           /\ now' = a.now
           /\ offset' = a.offset
           /\ lastTime' = a.lastTime
           /\ win' = a.win
           /\ red' = NoReduce

\* the history of the calls after one more call has recorded sample v at clock t: the
\* calls and successes are counted when counted is set; the time of the last sample,
\* and the samples the buckets held before it, are kept when timed is set
tallyCall(v, t, counted, timed) ==
    [calls |-> IF counted THEN tally.calls + 1 ELSE tally.calls,
     successes |-> IF counted THEN tally.successes + v ELSE tally.successes,
     first |-> IF counted /\ tally.first < 0 THEN t ELSE tally.first,
     last |-> IF timed THEN t ELSE tally.last,
     before |-> IF timed THEN TotalCount ELSE tally.before]

\* googleBreaker.doReq(req, fallback, acceptable), accept() having answered a
doReqTallied(a, req, fallback, acceptable, counted, timed) ==
    /\ TotalCount < MaxBreakerSamples
    /\ counted => tally.calls < MaxCalls
    /\ IF a.err # "nil"
       THEN /\ req = "nil" /\ acceptable = "default"    \* neither is looked at
            /\ Mark(doReqRejected(a, fallback).added[1], now, MaxBreakerTime)
            /\ ret' = doReqRejected(a, fallback)
       ELSE LET r == doReqAdmitted(a, req, fallback, acceptable)
            IN /\ \E took \in 0..MaxReqTicks : Mark(r.added[1], now + took, MaxBreakerTime)
               /\ ret' = r
    /\ tally' = tallyCall(ret'.added[1], now', counted, timed)
    /\ UNCHANGED <<initTime, size, ignoreCurrent, stamps, errWin, held, rwlock, pc, loc,
                   ewLog>>

doReq(a, req, fallback, acceptable) == doReqTallied(a, req, fallback, acceptable, FALSE, FALSE)

DoReq == \E a \in accept(now), req \in Requests, fallback \in Fallbacks,
            acceptable \in Acceptables : doReq(a, req, fallback, acceptable)

BreakerTick == Advance(MaxBreakerTime)

\* newGoogleBreaker(): a window of `buckets` buckets, ignoreCurrent not set
newGoogleBreaker(t) == NewRollingWindow(buckets, FALSE, t)

InitBreaker == newGoogleBreaker(0) /\ NoBreaker

NextBreaker == BreakerTick \/ DoReq

SpecBreaker == InitBreaker /\ [][NextBreaker]_vars

\* the same breaker, with the clock time of its last sample kept in tally
DoReqTimed == \E a \in accept(now), req \in Requests, fallback \in Fallbacks,
                 acceptable \in Acceptables :
                     doReqTallied(a, req, fallback, acceptable, FALSE, TRUE)

NextIdle == BreakerTick \/ DoReqTimed

SpecIdle == InitBreaker /\ [][NextIdle]_vars

\* the same breaker, with its calls and their successes counted in tally
DoReqCounted == \E a \in accept(now), req \in Requests, fallback \in Fallbacks,
                   acceptable \in Acceptables :
                       doReqTallied(a, req, fallback, acceptable, TRUE, FALSE)

NextTally == BreakerTick \/ DoReqCounted

SpecTally == InitBreaker /\ [][NextTally]_vars

\* ---------------------------------------------------------------- claims C1..C4
\* bucket (offset - j) mod size
Back(j) == (offset + size - j) % size

Min(a, b) == IF a < b THEN a ELSE b

\* C1: bucket boundaries never drift: for every j in 0..size-1 every sample held in
\* bucket (offset - j) mod size was added at a clock time in
\* [lastTime - j*interval, lastTime - (j-1)*interval), and lastTime stays aligned to
\* the construction time.
C1_NoDrift ==
    /\ (lastTime - initTime) % interval = 0
    /\ \A j \in 0..(size - 1) : \A t \in stamps[Back(j)] :
           /\ lastTime - j * interval <= t
           /\ t < lastTime - (j - 1) * interval

\* C2: stale data is never reused or reported: a bucket never holds samples of two
\* time slices, every sample Reduce hands to fn was added less than size*interval
\* before the Reduce call, and Reduce visits no bucket once size or more whole
\* intervals have elapsed since lastTime.
C2_NoStaleData ==
    /\ \A i \in DOMAIN stamps : \A t, u \in stamps[i] :
           (t - initTime) \div interval = (u - initTime) \div interval
    /\ red.valid => \A t \in red.samples : red.time - t < size * interval
    /\ (red.valid /\ red.time - lastTime >= size * interval) => red.visited = <<>>

\* span as the claim states it: min(floor(elapsed/interval), size)
ClaimSpan == Min((red.time - lastTime) \div interval, size)

\* C3: Reduce with ignoreCurrent = false hands fn exactly size - span buckets; with
\* ignoreCurrent = true and span = 0 exactly size - 1 buckets, none of them the bucket
\* at offset; the buckets visited start at (offset + span + 1) mod size and are
\* consecutive modulo size.
C3_ReduceRange ==
    red.valid =>
        /\ ~ignoreCurrent => Len(red.visited) = size - ClaimSpan
        /\ (ignoreCurrent /\ ClaimSpan = 0) =>
               /\ Len(red.visited) = size - 1
               /\ \A i \in 1..Len(red.visited) : red.visited[i] # offset
        /\ (~ignoreCurrent \/ ClaimSpan = 0) =>
               \A i \in 1..Len(red.visited) :
                   red.visited[i] = (offset + ClaimSpan + 1 + (i - 1)) % size

\* C3 witness: a Reduce over a window that has rotated, visiting a range that wraps
\* around the end of the bucket array and leaves out the expired buckets.
C3_Witness ==
    /\ red.valid /\ ~ignoreCurrent
    /\ red.span > 0 /\ Len(red.visited) >= 2
    /\ red.visited[1] > red.visited[Len(red.visited)]
    /\ red.count > 0

\* C3 witness (second case): ignoreCurrent leaves the bucket being written out.
C3_WitnessIgnoreCurrent ==
    /\ red.valid /\ ignoreCurrent /\ red.span = 0
    /\ size > 1 /\ win[offset].Count > 0

\* C4 as stated: Reduce repeated with no Add in between yields the same aggregates.
C4_ReduceIdempotent ==
    [][(red.valid /\ red'.valid) => (red'.sum = red.sum /\ red'.count = red.count)]_vars

\* C4 (amended): Reduce repeated with no Add in between yields the same aggregates
\* whenever both calls compute the same span, i.e. no bucket interval boundary was
\* crossed between them.
C4_ReduceIdempotentSameSpan ==
    [][(red.valid /\ red'.valid /\ red'.span = red.span)
          => (red'.sum = red.sum /\ red'.count = red.count)]_vars

\* C4 witness: a second Reduce with no Add since the first, computing the same span
\* over a window that has rotated and holds samples.
C4_Witness ==
    /\ red.valid /\ red.again /\ red.prevSpan = red.span
    /\ red.span > 0 /\ red.count > 0

\* ---------------------------------------------------------------- manual mode
\* faulty variant: a rejected allow() marks a success
allowMarksSuccess(a) ==
    IF a.err # "nil"
    THEN [promise |-> "nil", err |-> a.err, added |-> <<markSuccess>>]
    ELSE [promise |-> "googlePromise", err |-> "nil", added |-> <<>>]

\* googleBreaker.allow(), accept() having answered a: the promise and error it
\* returns and the samples it adds
allow(a) ==
    IF a.err # "nil"
    THEN [promise |-> "nil", err |-> a.err, added |-> <<markFailure>>]
    ELSE [promise |-> "googlePromise", err |-> "nil", added |-> <<>>]

\* googlePromise.Accept / googlePromise.Reject: the sample each adds
googlePromiseAccept == markSuccess

googlePromiseReject == markFailure

\* time.Now().Format("15:04:05"): the wall clock to the second; with a bucket interval
\* of window / buckets = 250ms a second is four intervals
TicksPerSecond == 4 * interval

timeFormat(t) == t \div TicksPerSecond

\* mathx.MinInt
MinInt(a, b) == IF a < b THEN a ELSE b

\* errorWindow.add(reason) at clock t
errorWindowAddAt(ew, reason, t) ==
    [reasons |-> [ew.reasons EXCEPT ![ew.index] = <<timeFormat(t), reason>>],
     index |-> (ew.index + 1) % numHistoryReasons,
     count |-> MinInt(ew.count + 1, numHistoryReasons)]

\* errorWindow.add(reason)
errorWindowAdd(ew, reason) == errorWindowAddAt(ew, reason, now)

\* the reasons a caller gives to Promise.Reject
Reasons == {"timeout"}

\* loggedThrottle.allow(): googleBreaker.allow(), its promise wrapped in a
\* PromiseWithReason, its error passed through logError (which reports it when it is
\* ErrServiceUnavailable)
Allow ==
    \E a \in accept(now) :
        LET r == allow(a)
        IN /\ IF r.added # <<>>
              THEN /\ TotalCount < MaxBreakerSamples
                   /\ Mark(r.added[1], now, MaxBreakerTime)
              ELSE /\ red' = ReduceResult(now)
                   /\ UNCHANGED <<now, offset, lastTime, win>>
           /\ held' = [promise |-> r.promise]
           /\ ret' = [op |-> "allow", accept |-> a, err |-> r.err, added |-> r.added,
                      reported |-> (r.err = ErrServiceUnavailable), panicked |-> FALSE]
           /\ UNCHANGED <<initTime, size, ignoreCurrent, stamps, errWin>>
           /\ UNCHANGED aux

\* PromiseWithReason.Accept(): p.promise.Accept(), a nil dereference when the wrapped
\* promise is nil
PromiseAccept ==
    /\ held # NoPromise
    /\ IF held.promise = "nil"
       THEN /\ ret' = [op |-> "Accept", added |-> <<>>, panicked |-> TRUE]
            /\ UNCHANGED <<now, offset, lastTime, win, red>>
       ELSE /\ TotalCount < MaxBreakerSamples
            /\ Mark(googlePromiseAccept, now, MaxBreakerTime)
            /\ ret' = [op |-> "Accept", added |-> <<googlePromiseAccept>>,
                       panicked |-> FALSE]
    /\ UNCHANGED <<initTime, size, ignoreCurrent, stamps, errWin, held>>
    /\ UNCHANGED aux

\* PromiseWithReason.Reject(reason): errWin.add(reason), then p.promise.Reject(), a nil
\* dereference when the wrapped promise is nil
PromiseReject ==
    /\ held # NoPromise
    /\ \E reason \in Reasons : errWin' = errorWindowAdd(errWin, reason)
    /\ IF held.promise = "nil"
       THEN /\ ret' = [op |-> "Reject", added |-> <<>>, panicked |-> TRUE]
            /\ UNCHANGED <<now, offset, lastTime, win, red>>
       ELSE /\ TotalCount < MaxBreakerSamples
            /\ Mark(googlePromiseReject, now, MaxBreakerTime)
            /\ ret' = [op |-> "Reject", added |-> <<googlePromiseReject>>,
                       panicked |-> FALSE]
    /\ UNCHANGED <<initTime, size, ignoreCurrent, stamps, held>>
    /\ UNCHANGED aux

NextManual == BreakerTick \/ Allow \/ PromiseAccept \/ PromiseReject

SpecManual == InitBreaker /\ [][NextManual]_vars

\* ---------------------------------------------------------------- loggedThrottle.doReq
\* faulty variant: the closure answers err == nil, whatever acceptable says
wrappedAcceptableErrNil(acceptable, err) ==
    [accept |-> (err = "nil"),
     logged |-> IF ~ApplyAcceptable(acceptable, err) /\ err # "nil" THEN <<err>> ELSE <<>>]

\* the closure loggedThrottle.doReq hands to the wrapped doReq in place of acceptable:
\* what it answers, and the reason it adds to errWin
wrappedAcceptable(acceptable, err) ==
    [accept |-> ApplyAcceptable(acceptable, err),
     logged |-> IF ~ApplyAcceptable(acceptable, err) /\ err # "nil" THEN <<err>> ELSE <<>>]

\* logError(err): err goes back unchanged, reported when it is ErrServiceUnavailable
logError(err) == [err |-> err, reported |-> (err = <<ErrServiceUnavailable>>)]

\* loggedThrottle.doReq, rejected by accept(): the wrapped doReq never calls the closure
loggedDoReqRejected(a, fallback) ==
    LET err == IF fallback # "none" THEN ApplyFallback(fallback, a.err) ELSE <<a.err>>
    IN [op |-> "loggedDoReq", accept |-> a, reqCalls |-> 0, req |-> "none",
        fbCalls |-> IF fallback # "none" THEN 1 ELSE 0,
        fallback |-> fallback, acceptable |-> "none",
        added |-> <<markFailure>>, panicked |-> FALSE, logged |-> <<>>,
        err |-> logError(err).err, reported |-> logError(err).reported]

\* loggedThrottle.doReq, admitted by accept(): req(), the closure, the deferred mark
loggedDoReqAdmitted(a, req, fallback, acceptable) ==
    LET called == req # "panic"
        w == wrappedAcceptable(acceptable, req)
        success == IF called THEN w.accept ELSE FALSE
        err == IF called THEN <<req>> ELSE <<>>
    IN [op |-> "loggedDoReq", accept |-> a, reqCalls |-> 1, req |-> req,
        fbCalls |-> 0, fallback |-> fallback, acceptable |-> acceptable,
        added |-> <<IF success THEN markSuccess ELSE markFailure>>,
        panicked |-> ~called, logged |-> IF called THEN w.logged ELSE <<>>,
        err |-> IF called THEN logError(err).err ELSE err,
        reported |-> IF called THEN logError(err).reported ELSE FALSE]

\* loggedThrottle.doReq(req, fallback, acceptable), accept() having answered a
loggedDoReq(a, req, fallback, acceptable) ==
    /\ TotalCount < MaxBreakerSamples
    /\ IF a.err # "nil"
       THEN /\ req = "nil" /\ acceptable = "default"    \* neither is looked at
            /\ Mark(loggedDoReqRejected(a, fallback).added[1], now, MaxLoggedTime)
            /\ ret' = loggedDoReqRejected(a, fallback)
            /\ errWin' = errWin
       ELSE LET r == loggedDoReqAdmitted(a, req, fallback, acceptable)
            IN \E took \in 0..MaxReqTicks :
                   /\ Mark(r.added[1], now + took, MaxLoggedTime)
                   /\ ret' = r
                   /\ errWin' = IF r.logged # <<>>
                                THEN errorWindowAddAt(errWin, r.logged[1], now + took)
                                ELSE errWin
    /\ UNCHANGED <<initTime, size, ignoreCurrent, stamps, held>>
    /\ UNCHANGED aux

LoggedDoReq == \E a \in accept(now), req \in Requests, fallback \in Fallbacks,
                  acceptable \in Acceptables : loggedDoReq(a, req, fallback, acceptable)

LoggedTick == Advance(MaxLoggedTime)

NextLogged == LoggedTick \/ LoggedDoReq \/ Allow

SpecLogged == InitBreaker /\ [][NextLogged]_vars

\* ---------------------------------------------------------------- claims C5..C9
\* the step recorded exactly one sample of value v: the bucket written holds one
\* sample more than before (or one sample, when the window rotated onto it), and
\* every other bucket is as it was or was reset
OneSampleAdded(v) ==
    LET base == IF lastTime' # lastTime THEN NewBucket ELSE win[offset]
    IN /\ win'[offset'] = [Sum |-> base.Sum + v, Count |-> base.Count + 1]
       /\ \A i \in DOMAIN win \ {offset'} : win'[i] = win[i] \/ win'[i] = NewBucket

\* C5: protection floor: whenever the aggregated total is at or below protection (5),
\* the cold start total = 0 included, accept() returns no error, whatever the mix of
\* successes and failures.
C5_ProtectionFloor ==
    (ret.op = "doReq" /\ ret.accept.total <= protection) => ret.accept.err = "nil"

\* C5 witness: accept() admits at the floor with nothing but failures in the window.
C5_Witness ==
    /\ ret.op = "doReq" /\ ret.accept.total = protection /\ ret.accept.accepts = 0
    /\ ret.accept.err = "nil"

\* C6: an all-success history is never rejected: with total > protection and
\* accepts = total, dropRatio <= 0 and accept() admits without consulting the sampler.
C6_AllSuccessAdmitted ==
    (ret.op = "doReq" /\ ret.accept.total > protection
                      /\ ret.accept.accepts = ret.accept.total)
        => (ret.accept.num <= 0 /\ ~ret.accept.sampled /\ ret.accept.err = "nil")

\* C6 witness: accept() runs over a window of more than protection + 1 successes.
C6_Witness ==
    /\ ret.op = "doReq" /\ ret.accept.total > protection + 1
    /\ ret.accept.accepts = ret.accept.total /\ ret.accept.err = "nil"

\* C7: automatic mode, rejected: req is never invoked, exactly one failure sample is
\* recorded, and the call returns fallback(ErrServiceUnavailable) if a fallback was
\* supplied, otherwise ErrServiceUnavailable itself.
C7_RejectedPath ==
    [][(ret'.op = "doReq" /\ ret'.accept.err # "nil") =>
          /\ ret'.reqCalls = 0
          /\ ~ret'.panicked
          /\ OneSampleAdded(0)
          /\ ret'.fallback = "none" =>
                 (ret'.fbCalls = 0 /\ ret'.err = <<ErrServiceUnavailable>>)
          /\ ret'.fallback # "none" =>
                 (ret'.fbCalls = 1 /\ ret'.err = <<"fallback", ErrServiceUnavailable>>)]_vars

\* C7 witness: a call rejected by accept(), answered by its fallback.
C7_Witness ==
    /\ ret.op = "doReq" /\ ret.accept.err = ErrServiceUnavailable
    /\ ret.fallback # "none" /\ ret.fbCalls = 1

\* C8: automatic mode, admitted: req is invoked exactly once, its error is returned
\* unchanged, the fallback is never called, and the sample recorded is a success if
\* and only if acceptable(err) is true, also when err # nil and acceptable
\* whitelists it.
C8_AdmittedPath ==
    [][(ret'.op = "doReq" /\ ret'.accept.err = "nil") =>
          /\ ret'.reqCalls = 1
          /\ ret'.fbCalls = 0
          /\ ~ret'.panicked =>
                 /\ ret'.err = <<ret'.req>>
                 /\ ret'.acceptable = "default" =>
                        OneSampleAdded(IF ret'.req = "nil" THEN 1 ELSE 0)
                 /\ ret'.acceptable = "whitelist" => OneSampleAdded(1)]_vars

\* C8 witness: an admitted call whose request failed with a whitelisted error, a
\* fallback being supplied; the error comes back and a success is recorded.
C8_Witness ==
    /\ ret.op = "doReq" /\ ret.accept.err = "nil"
    /\ ret.req = "e1" /\ ret.acceptable = "whitelist" /\ ret.fallback # "none"
    /\ ret.err = <<"e1">> /\ ret.added = <<1>>

\* C9: if the wrapped request panics inside an admitted doReq, a failure sample is
\* still recorded before the panic reaches the caller: exactly one sample, and not a
\* success.
C9_PanicRecordsFailure ==
    [][(ret'.op = "doReq" /\ ret'.panicked) =>
          /\ ret'.accept.err = "nil" /\ ret'.reqCalls = 1
          /\ ret'.err = <<>>
          /\ OneSampleAdded(0)]_vars

\* C9 witness: a request panicked although acceptable would have whitelisted
\* anything it returned, over a window that already held samples.
C9_Witness ==
    /\ ret.op = "doReq" /\ ret.panicked /\ ret.acceptable = "whitelist"
    /\ win[offset].Count > 1
\* ---------------------------------------------------------------- claim C10
\* C10: manual mode: a rejected Allow records exactly one failure sample at once and
\* returns ErrServiceUnavailable with no Promise usable for reporting (the wrapped
\* promise is nil: Accept and Reject on it panic and record nothing); an admitted
\* Allow records no sample and returns a Promise whose Accept() records one success
\* sample and whose Reject(reason) records one failure sample.
C10_ManualMode ==
    [][/\ (ret'.op = "allow" /\ ret'.accept.err # "nil") =>
             /\ OneSampleAdded(0)
             /\ ret'.err = ErrServiceUnavailable
             /\ held'.promise = "nil"
       /\ (ret'.op = "allow" /\ ret'.accept.err = "nil") =>
             /\ win' = win
             /\ ret'.err = "nil"
             /\ held'.promise = "googlePromise"
       /\ (ret'.op = "Accept" /\ held.promise = "googlePromise") => OneSampleAdded(1)
       /\ (ret'.op = "Reject" /\ held.promise = "googlePromise") => OneSampleAdded(0)
       /\ (ret'.op \in {"Accept", "Reject"} /\ held.promise = "nil") =>
             (win' = win /\ ret'.panicked)]_vars

\* C10 witness: an Allow is rejected after earlier promises were resolved both ways;
\* the caller is left without a usable Promise.
C10_Witness ==
    /\ ret.op = "allow" /\ ret.err = ErrServiceUnavailable
    /\ held.promise = "nil"
    /\ errWin.count > 0 /\ win[offset].Count > 1

\* ---------------------------------------------------------------- claim C11
TotalSum == SumOver([i \in DOMAIN win |-> win[i].Sum], DOMAIN win)

\* the call that has just returned recorded a sample
JustRecorded == ret.op \in {"Accept", "Reject", "allow"} /\ ret.added # <<>>

\* C11: once Promise.Accept, Promise.Reject or a rejecting allow() has returned, an
\* accept() made at once on the breaker's window reduces over the bucket just written
\* and sees every sample the window holds, the new one included: its total is the
\* window's whole count (at least 1), its accepts the window's whole sum (at least 1
\* after an Accept).
C11_SyncVisible ==
    JustRecorded =>
        /\ \E n \in 1..Len(ReduceResult(now).visited) : ReduceResult(now).visited[n] = offset
        /\ win[offset].Count >= 1
        /\ \A a \in accept(now) :
               /\ a.total = TotalCount
               /\ a.accepts = TotalSum
               /\ a.total >= 1
               /\ ret.added = <<markSuccess>> => a.accepts >= 1 /\ win[offset].Sum >= 1

C11_Witness ==
    /\ ret.op = "Accept"
    /\ ret.added = <<markSuccess>>
    /\ history(now).total >= 3
    /\ history(now).accepts = 1
    /\ history(now).total = TotalCount

\* ---------------------------------------------------------------- concurrent callers
\* Add and Reduce statement by statement, called from the goroutines in Procs on one
\* window; rw.lock is a sync.RWMutex

\* faulty variant: Lock() waits for the writer only
CanLockIgnoringReaders == rwlock.writer = 0

\* rw.lock.Lock() may return: nobody holds the lock
CanLock == rwlock.writer = 0 /\ rwlock.readers = {}

\* rw.lock.RLock() may return: no writer holds the lock
CanRLock == rwlock.writer = 0

AddLabels == {"addSpan", "addReset", "addOffset", "addLastTime", "addSum", "addLoadCount",
              "addStoreCount", "addUnlock"}

ReduceLabels == {"redSpan", "redRead", "redUnlock"}

InAdd(p) == pc[p] \in AddLabels

InReduce(p) == pc[p] \in ReduceLabels

\* Add calls begun and not yet returned
AddsBegun == Cardinality({p \in Procs : pc[p] = "addLock" \/ InAdd(p)})

Goto(p, label) == pc' = [pc EXCEPT ![p] = label]

\* a goroutine calls Add(v)
CallAdd(p, v) ==
    /\ pc[p] = "idle"
    /\ TotalCount + AddsBegun < MaxConcAdds
    /\ Goto(p, "addLock")
    /\ loc' = [loc EXCEPT ![p] = [NoLocals EXCEPT !.v = v, !.adds = loc[p].adds]]
    /\ UNCHANGED <<now, initTime, size, ignoreCurrent, offset, lastTime, win, stamps, red,
                   ret, errWin, held, rwlock, ewLog, tally>>

\* rw.lock.Lock()
AddLock(p) ==
    /\ pc[p] = "addLock"
    /\ CanLock
    /\ rwlock' = [rwlock EXCEPT !.writer = p]
    /\ Goto(p, "addSpan")
    /\ UNCHANGED <<now, initTime, size, ignoreCurrent, offset, lastTime, win, stamps, red,
                   ret, errWin, held, loc, ewLog, tally>>

\* updateOffset: span := rw.span()
AddSpan(p) ==
    /\ pc[p] = "addSpan"
    /\ loc' = [loc EXCEPT ![p].span = span(now)]
    /\ Goto(p, IF span(now) <= 0 THEN "addSum" ELSE "addReset")
    /\ UNCHANGED <<now, initTime, size, ignoreCurrent, offset, lastTime, win, stamps, red,
                   ret, errWin, held, rwlock, ewLog, tally>>

\* updateOffset: the loop that resets the expired buckets
AddReset(p) ==
    /\ pc[p] = "addReset"
    /\ win' = resetLoop(win, offset, loc[p].span, 0)
    /\ Goto(p, "addOffset")
    /\ UNCHANGED <<now, initTime, size, ignoreCurrent, offset, lastTime, stamps, red,
                   ret, errWin, held, rwlock, loc, ewLog, tally>>

\* updateOffset: rw.offset = (offset + span) % rw.size
AddOffset(p) ==
    /\ pc[p] = "addOffset"
    /\ offset' = (offset + loc[p].span) % size
    /\ Goto(p, "addLastTime")
    /\ UNCHANGED <<now, initTime, size, ignoreCurrent, lastTime, win, stamps, red,
                   ret, errWin, held, rwlock, loc, ewLog, tally>>

\* updateOffset: now := timex.Now(); rw.lastTime = now - (now-rw.lastTime)%rw.interval
AddLastTime(p) ==
    /\ pc[p] = "addLastTime"
    /\ lastTime' = alignLastTime(now)
    /\ Goto(p, "addSum")
    /\ UNCHANGED <<now, initTime, size, ignoreCurrent, offset, win, stamps, red,
                   ret, errWin, held, rwlock, loc, ewLog, tally>>

\* Bucket.add: b.Sum += v
AddSum(p) ==
    /\ pc[p] = "addSum"
    /\ win' = [win EXCEPT ![offset % size].Sum = @ + loc[p].v]
    /\ Goto(p, "addLoadCount")
    /\ UNCHANGED <<now, initTime, size, ignoreCurrent, offset, lastTime, stamps, red,
                   ret, errWin, held, rwlock, loc, ewLog, tally>>

\* Bucket.add: b.Count++, the load
AddLoadCount(p) ==
    /\ pc[p] = "addLoadCount"
    /\ loc' = [loc EXCEPT ![p].count = win[offset % size].Count]
    /\ Goto(p, "addStoreCount")
    /\ UNCHANGED <<now, initTime, size, ignoreCurrent, offset, lastTime, win, stamps, red,
                   ret, errWin, held, rwlock, ewLog, tally>>

\* Bucket.add: b.Count++, the store
AddStoreCount(p) ==
    /\ pc[p] = "addStoreCount"
    /\ win' = [win EXCEPT ![offset % size].Count = loc[p].count + 1]
    /\ Goto(p, "addUnlock")
    /\ UNCHANGED <<now, initTime, size, ignoreCurrent, offset, lastTime, stamps, red,
                   ret, errWin, held, rwlock, loc, ewLog, tally>>

\* the deferred rw.lock.Unlock(); Add returns
AddUnlock(p) ==
    /\ pc[p] = "addUnlock"
    /\ rwlock' = [rwlock EXCEPT !.writer = 0]
    /\ Goto(p, "idle")
    /\ loc' = [loc EXCEPT ![p] = [NoLocals EXCEPT !.adds = loc[p].adds + 1]]
    /\ UNCHANGED <<now, initTime, size, ignoreCurrent, offset, lastTime, win, stamps, red,
                   ret, errWin, held, ewLog, tally>>

\* a goroutine calls Reduce(fn)
CallReduce(p) ==
    /\ pc[p] = "idle"
    /\ Goto(p, "redLock")
    /\ loc' = [loc EXCEPT ![p] = [NoLocals EXCEPT !.adds = loc[p].adds]]
    /\ UNCHANGED <<now, initTime, size, ignoreCurrent, offset, lastTime, win, stamps, red,
                   ret, errWin, held, rwlock, ewLog, tally>>

\* rw.lock.RLock()
ReduceRLock(p) ==
    /\ pc[p] = "redLock"
    /\ CanRLock
    /\ rwlock' = [rwlock EXCEPT !.readers = @ \cup {p}]
    /\ Goto(p, "redSpan")
    /\ UNCHANGED <<now, initTime, size, ignoreCurrent, offset, lastTime, win, stamps, red,
                   ret, errWin, held, loc, ewLog, tally>>

\* span := rw.span()
ReduceSpan(p) ==
    /\ pc[p] = "redSpan"
    /\ loc' = [loc EXCEPT ![p].span = span(now)]
    /\ Goto(p, "redRead")
    /\ UNCHANGED <<now, initTime, size, ignoreCurrent, offset, lastTime, win, stamps, red,
                   ret, errWin, held, rwlock, ewLog, tally>>

\* the range from rw.offset and span, and rw.win.reduce over it with a summing fn
ReduceRead(p) ==
    /\ pc[p] = "redRead"
    /\ LET sp == loc[p].span
           diff == reduceDiff(sp)
           visited == IF diff > 0 THEN windowReduce(size, reduceStart(sp), diff) ELSE <<>>
       IN loc' = [loc EXCEPT ![p].visited = visited,
                             ![p].sum = FoldSum(visited, 1),
                             ![p].count = FoldCount(visited, 1)]
    /\ Goto(p, "redUnlock")
    /\ UNCHANGED <<now, initTime, size, ignoreCurrent, offset, lastTime, win, stamps, red,
                   ret, errWin, held, rwlock, ewLog, tally>>

\* the deferred rw.lock.RUnlock(); Reduce returns
ReduceRUnlock(p) ==
    /\ pc[p] = "redUnlock"
    /\ rwlock' = [rwlock EXCEPT !.readers = @ \ {p}]
    /\ Goto(p, "idle")
    /\ loc' = [loc EXCEPT ![p] = [NoLocals EXCEPT !.adds = loc[p].adds]]
    /\ UNCHANGED <<now, initTime, size, ignoreCurrent, offset, lastTime, win, stamps, red,
                   ret, errWin, held, ewLog, tally>>

\* the clock of the concurrent specification runs for one bucket interval
ConcTick == Advance(interval)

AddStep ==
    \E p \in Procs :
        \/ \E v \in {markFailure, markSuccess} : CallAdd(p, v)
        \/ AddLock(p)
        \/ AddSpan(p)
        \/ AddReset(p)
        \/ AddOffset(p)
        \/ AddLastTime(p)
        \/ AddSum(p)
        \/ AddLoadCount(p)
        \/ AddStoreCount(p)
        \/ AddUnlock(p)

ReduceStep ==
    \E p \in Procs :
        \/ CallReduce(p)
        \/ ReduceRLock(p)
        \/ ReduceSpan(p)
        \/ ReduceRead(p)
        \/ ReduceRUnlock(p)

NextConc == ConcTick \/ AddStep \/ ReduceStep

SpecConc == InitBreaker /\ [][NextConc]_vars

\* ---------------------------------------------------------------- claim C12
AddsDone == SumOver([p \in Procs |-> loc[p].adds], Procs)

\* C12: a goroutine inside Add (between Lock and Unlock) is alone: no other goroutine is
\* inside Add or inside Reduce (between RLock and RUnlock), while several may be inside
\* Reduce together. No sample is lost: as long as no bucket has been rotated out, the
\* bucket at offset counts every completed Add once all begun Adds have returned. And a
\* Reduce that has read the window has read the state no Add is halfway through: its
\* totals are those of the buckets as they stand, and count every completed Add.
C12_LockDiscipline ==
    /\ \A p \in Procs :
           InAdd(p) => /\ rwlock.writer = p
                       /\ rwlock.readers = {}
                       /\ \A q \in Procs \ {p} : ~InAdd(q) /\ ~InReduce(q)
    /\ \A p \in Procs : InReduce(p) => p \in rwlock.readers /\ rwlock.writer = 0
    /\ (lastTime = initTime /\ \A p \in Procs : ~InAdd(p))
           => win[offset].Count = AddsDone
    /\ \A p \in Procs :
           pc[p] = "redUnlock" =>
               /\ loc[p].count = FoldCount(loc[p].visited, 1)
               /\ loc[p].sum = FoldSum(loc[p].visited, 1)
               /\ lastTime = initTime => loc[p].count = AddsDone

C12_Witness ==
    /\ \A p \in Procs : pc[p] = "redUnlock" /\ loc[p].count >= 2
    /\ Cardinality(rwlock.readers) >= 2

\* an Add that rotates the window waits for the lock while a Reduce is inside
C12_WitnessBlocked ==
    /\ \E p \in Procs : pc[p] = "addLock" /\ span(now) > 0
    /\ \E q \in Procs : pc[q] = "redRead"

\* ---------------------------------------------------------------- construction
\* the state when NewRollingWindow has panicked: the caller has no window
NoWindow(t) ==
    /\ now = t
    /\ initTime = t
    /\ size = 0
    /\ ignoreCurrent = FALSE
    /\ offset = 0
    /\ lastTime = t
    /\ win = [i \in {} |-> NewBucket]
    /\ stamps = [i \in {} |-> {}]
    /\ red = NoReduce

\* faulty variant: a size below 1 is raised to 1
ConstructClamped(sz, ic, t) ==
    /\ NewRollingWindow(IF sz < 1 THEN 1 ELSE sz, ic, t)
    /\ ret = [op |-> "NewRollingWindow", size |-> sz, panicked |-> FALSE]

\* NewRollingWindow(size, interval, opts...) called with any size at clock t
Construct(sz, ic, t) ==
    IF sz < 1
    THEN /\ NoWindow(t)
         /\ ret = [op |-> "NewRollingWindow", size |-> sz, panicked |-> TRUE]
    ELSE /\ NewRollingWindow(sz, ic, t)
         /\ ret = [op |-> "NewRollingWindow", size |-> sz, panicked |-> FALSE]

InitNew ==
    /\ \E sz \in (1 - MaxSize)..MaxSize, ic \in BOOLEAN, t \in 0..MaxStart :
           Construct(sz, ic, t)
    /\ errWin = newErrorWindow
    /\ held = NoPromise
    /\ NoAux

\* Add and Reduce are methods of the window NewRollingWindow returned
Built == DOMAIN win # {}

NextNew == Built /\ Next

SpecNew == InitNew /\ [][NextNew]_vars

\* ---------------------------------------------------------------- claim C13
\* C13: NewRollingWindow panics exactly when size < 1, and then no window exists (no
\* bucket, and nothing can be called); a size below 1 is never raised to 1: a window
\* that exists has the size that was asked for, at least 1, and that many buckets.
C13_FailFast ==
    /\ ret.op = "NewRollingWindow" =>
           /\ ret.panicked <=> ret.size < 1
           /\ ret.panicked => ~Built /\ size = 0 /\ ~ENABLED NextNew
           /\ ~ret.panicked => Built /\ size = ret.size
    /\ Built => size >= 1 /\ DOMAIN win = 0..(size - 1)

C13_Witness ==
    /\ ret.op = "NewRollingWindow"
    /\ ret.size = 0
    /\ ret.panicked
    /\ ~Built

\* ---------------------------------------------------------------- claim C14
\* what googleBreaker.doReq alone does with the inputs of the logged call r
PlainDoReq(r) ==
    IF r.accept.err # "nil" THEN doReqRejected(r.accept, r.fallback)
    ELSE doReqAdmitted(r.accept, r.req, r.fallback, r.acceptable)

\* C14: loggedThrottle.doReq is answered by accept() as the window alone decides, and
\* returns the error, makes the calls and records the one sample that googleBreaker.doReq
\* alone does on the same inputs, whatever errWin holds; loggedThrottle.allow returns
\* the error and records the sample of googleBreaker.allow.
C14_WrapperTransparent ==
    [][/\ (ret'.op = "loggedDoReq" /\ win' # win) =>
              /\ ret'.accept \in accept(now)
              /\ ret'.err = PlainDoReq(ret').err
              /\ ret'.added = PlainDoReq(ret').added
              /\ ret'.panicked = PlainDoReq(ret').panicked
              /\ ret'.reqCalls = PlainDoReq(ret').reqCalls
              /\ ret'.fbCalls = PlainDoReq(ret').fbCalls
              /\ OneSampleAdded(PlainDoReq(ret').added[1])
       /\ (ret'.op = "allow" /\ (ret' # ret \/ win' # win)) =>
              /\ ret'.accept \in accept(now)
              /\ ret'.err = allow(ret'.accept).err
              /\ ret'.added = allow(ret'.accept).added
              /\ IF ret'.added = <<>> THEN win' = win
                 ELSE OneSampleAdded(ret'.added[1])
      ]_vars

\* the breaker rejects a logged call while errWin is full
C14_Witness ==
    /\ ret.op = "loggedDoReq"
    /\ ret.accept.err = ErrServiceUnavailable
    /\ ret.reported
    /\ errWin.count = numHistoryReasons

\* an admitted logged call whose error the closure added to errWin
C14_WitnessLogged ==
    /\ ret.op = "loggedDoReq"
    /\ ret.logged = <<"e1">>
    /\ ret.added = <<markFailure>>
    /\ errWin.count >= 2

\* allow() rejects while errWin is full
C14_WitnessAllow ==
    /\ ret.op = "allow"
    /\ ret.err = ErrServiceUnavailable
    /\ errWin.count = numHistoryReasons

\* ---------------------------------------------------------------- errorWindow
\* Go's %: the remainder takes the sign of the dividend
goRem(a, n) == IF a >= 0 THEN a % n ELSE -((-a) % n)

\* the loop of String(): i runs from ew.index-1 down to ew.index-ew.count
RECURSIVE stringLoop(_, _)
stringLoop(ew, i) ==
    IF i >= ew.index - ew.count
    THEN <<ew.reasons[goRem(i + numHistoryReasons, numHistoryReasons)]>>
             \o stringLoop(ew, i - 1)
    ELSE <<>>

\* faulty variant: the loop starts at the slot the next add will overwrite
errorWindowStringFromIndex(ew) == stringLoop(ew, ew.index)

\* errorWindow.String(): the lines strings.Join puts together, first line first
errorWindowString(ew) == stringLoop(ew, ew.index - 1)

\* the reasons added: Promise.Reject's, and the error of a failed request
LoggedReasons == Reasons \cup {"e1"}

\* errorWindow.add(reason), every entry added being kept in ewLog
ErrAdd ==
    /\ Len(ewLog) < MaxLogged
    /\ \E reason \in LoggedReasons :
           /\ errWin' = errorWindowAdd(errWin, reason)
           /\ ewLog' = Append(ewLog, <<timeFormat(now), reason>>)
    /\ ret' = [op |-> "add"]
    /\ UNCHANGED <<now, initTime, size, ignoreCurrent, offset, lastTime, win, stamps, red,
                   held, rwlock, pc, loc, tally>>

\* errorWindow.String()
ErrString ==
    /\ ret' = [op |-> "String", lines |-> errorWindowString(errWin)]
    /\ UNCHANGED <<now, initTime, size, ignoreCurrent, offset, lastTime, win, stamps, red,
                   errWin, held, rwlock, pc, loc, ewLog, tally>>

NextErrWin == Tick \/ ErrAdd \/ ErrString

SpecErrWin == InitBreaker /\ [][NextErrWin]_vars

\* ---------------------------------------------------------------- claim C15
\* the last m entries of ewLog, the latest first
LatestFirst(m) == [j \in 1..m |-> ewLog[Len(ewLog) + 1 - j]]

\* C15: after n calls of add, count = min(n, 5), index = n mod 5, and String() lists
\* exactly the last min(n, 5) entries added, the most recent first.
C15_ErrorWindow ==
    LET n == Len(ewLog)
        m == Min(n, numHistoryReasons)
    IN /\ errWin.count = m
       /\ errWin.index = n % numHistoryReasons
       /\ errorWindowString(errWin) = LatestFirst(m)
       /\ ret.op = "String" => ret.lines = LatestFirst(m)

C15_Witness ==
    /\ ret.op = "String"
    /\ Len(ewLog) = MaxLogged
    /\ Len(ret.lines) = numHistoryReasons
    /\ ret.lines[1] # ret.lines[2]
    /\ ret.lines[1][1] # ret.lines[numHistoryReasons][1]

\* ---------------------------------------------------------------- NewBreaker
\* stringx.Rand(): 8 characters drawn from letterBytes
RandNames == {"k3Jx09aB", "Zq71LmPw"}

\* the options handed to NewBreaker: none, or one that sets the name
Options == {"none", "name"}

applyOption(opt, b) == IF opt = "name" THEN [b EXCEPT !.name = "svc"] ELSE b

\* NewBreaker(opts...): the circuitBreaker it fills in (its throttle is never set), and
\* the Breaker it returns: <<>> is nil, <<b>> a pointer to b
NewBreaker(opt, rnd) ==
    LET b0 == [name |-> "", throttle |-> "nil"]
        b1 == applyOption(opt, b0)
        b == IF Len(b1.name) = 0 THEN [b1 EXCEPT !.name = rnd] ELSE b1
    IN [op |-> "NewBreaker", option |-> opt, built |-> b, breaker |-> <<>>]

NewBreakerCall ==
    /\ \E opt \in Options, rnd \in RandNames : ret' = NewBreaker(opt, rnd)
    /\ UNCHANGED <<now, initTime, size, ignoreCurrent, offset, lastTime, win, stamps, red,
                   errWin, held>>
    /\ UNCHANGED aux

Methods == {"Name", "Allow", "Do", "DoWithAcceptable", "DoWithFallback",
            "DoWithFallbackAcceptable"}

\* a method called on the Breaker NewBreaker has just returned: a nil Breaker panics
\* on every method, a circuitBreaker without throttle on every method but Name
BreakerCall ==
    /\ ret.op = "NewBreaker"
    /\ \E method \in Methods :
           ret' = [op |-> method, breaker |-> ret.breaker, built |-> ret.built,
                   panicked |-> IF ret.breaker = <<>> THEN TRUE
                                ELSE method # "Name" /\ ret.breaker[1].throttle = "nil"]
    /\ UNCHANGED <<now, initTime, size, ignoreCurrent, offset, lastTime, win, stamps, red,
                   errWin, held>>
    /\ UNCHANGED aux

NextFacade == BreakerTick \/ NewBreakerCall \/ BreakerCall

SpecFacade == InitBreaker /\ [][NextFacade]_vars

\* ---------------------------------------------------------------- claim C16
\* C16: NewBreaker returns a non-nil Breaker; its name is the name the option gave, or a
\* generated non-empty id when none was given; it has a throttle, so that no method
\* called on it panics.
C16_UsableBreaker ==
    /\ ret.op = "NewBreaker" =>
           /\ ret.breaker # <<>>
           /\ ret.breaker[1].name = IF ret.option = "name" THEN "svc" ELSE ret.built.name
           /\ ret.breaker[1].name \in RandNames \cup {"svc"}
           /\ ret.breaker[1].throttle # "nil"
    /\ ret.op \in Methods => ~ret.panicked

\* ---------------------------------------------------------------- claim C17
\* C17: a Reduce call (the step that hands buckets to fn at the current clock) leaves
\* offset, lastTime and every bucket's Sum and Count as they were, whatever span it
\* computes; a step that changes any of them is an Add, which writes a sample into the
\* bucket at the new offset.
C17_ReduceReadOnly ==
    [][/\ (red'.valid /\ now' = now) => UNCHANGED <<offset, lastTime, win>>
       /\ (offset' # offset \/ lastTime' # lastTime \/ win' # win) =>
              /\ red' = NoReduce
              /\ win'[offset'].Count >= 1
              /\ TotalCount' >= 1
      ]_vars

\* a Reduce that finds the whole window expired has left the stale buckets alone
C17_Witness ==
    /\ red.valid
    /\ red.time = now
    /\ red.span = size
    /\ red.visited = <<>>
    /\ TotalCount >= 2
    /\ now - lastTime >= size * interval

\* ---------------------------------------------------------------- claim C19
\* the failures accept() saw: total - accepts
FailuresSeen(a) == a.total - a.accepts

\* C19: whatever accept() may answer in a state, and whatever it has answered to a
\* doReq: ErrServiceUnavailable only with 7 or more failures in view (more than
\* protection + k = 6.5); with 6 or fewer the request is admitted without the sampler
\* being consulted; and when the sampler is consulted the ratio num/den it is given is
\* strictly between 0 and 1.
C19_RejectionThreshold ==
    LET Bounded(a) ==
            /\ a.err # "nil" => a.sampled /\ 2 * FailuresSeen(a) > 2 * protection + k2
            /\ a.err # "nil" => FailuresSeen(a) >= 7
            /\ FailuresSeen(a) <= 6 => a.err = "nil" /\ ~a.sampled
            /\ a.sampled => 0 < a.num /\ a.num < a.den
    IN /\ \A a \in accept(now) : Bounded(a)
       /\ ret.op = "doReq" => Bounded(ret.accept)

C19_Witness ==
    /\ ret.op = "doReq"
    /\ ret.accept.err = ErrServiceUnavailable
    /\ FailuresSeen(ret.accept) = 7
    /\ ret.accept.num = 1

\* the sampler is consulted and admits, with successes in the window
C19_WitnessSampledAdmit ==
    /\ ret.op = "doReq"
    /\ ret.accept.sampled
    /\ ret.accept.err = "nil"
    /\ FailuresSeen(ret.accept) = 7

\* ---------------------------------------------------------------- claim C18
\* no sample has been recorded for size*interval or longer
Idle == tally.last >= 0 /\ now - tally.last >= size * interval

\* C18: when the last sample is size*interval old or older, accept() sees total = 0 and
\* admits, whatever the buckets still hold; and the doReq made then runs the request
\* and leaves the window with one sample, its own: Count 1 in the bucket at offset,
\* every other bucket reset.
C18_IdleRecovery ==
    [][Idle =>
          /\ \A a \in accept(now) : a.total = 0 /\ a.accepts = 0 /\ a.err = "nil"
          /\ win' # win =>
                 /\ ret'.accept.total = 0
                 /\ ret'.accept.err = "nil"
                 /\ ret'.reqCalls = 1
                 /\ win'[offset'] = [Sum |-> ret'.added[1], Count |-> 1]
                 /\ \A i \in DOMAIN win \ {offset'} : win'[i] = NewBucket
                 /\ TotalCount' = 1
      ]_vars

\* a call made after the idle time, the buckets having held 7 failures or more
C18_Witness ==
    /\ ret.op = "doReq"
    /\ tally.before >= 7
    /\ ret.accept.total = 0
    /\ ret.reqCalls = 1
    /\ TotalCount = 1
    /\ tally.last = now

\* ---------------------------------------------------------------- claim C20
\* the buckets hold one sample for every call counted, and a 1 for every success
TallyMatches == TotalCount = tally.calls /\ TotalSum = tally.successes

\* the call r was classified a success: admitted, req returned, acceptable said yes
ClassifiedSuccess(r) ==
    /\ r.accept.err = "nil"
    /\ ~r.panicked
    /\ ApplyAcceptable(r.acceptable, r.req)

\* C20 as stated: when a doReq has completed and the first call's sample is less than
\* size*interval old (all calls so far lie within one retention window), the bucket
\* counts add up to the number of calls and the bucket sums to the number of calls
\* classified success.
C20_SampleTally ==
    (ret.op = "doReq" /\ tally.first >= 0 /\ now - tally.first < size * interval)
        => TallyMatches

\* C20, amended: every doReq records exactly one sample, 1 exactly when the call was
\* classified success, on every path; and while less than size*interval has passed
\* since the breaker was built, the bucket counts add up to the number of calls and
\* the bucket sums to the number of calls classified success.
C20_SampleTallyFromStart ==
    [][/\ tally'.calls = tally.calls + 1 =>
              /\ Len(ret'.added) = 1
              /\ OneSampleAdded(ret'.added[1])
              /\ ret'.added[1] = (IF ClassifiedSuccess(ret') THEN markSuccess
                                  ELSE markFailure)
              /\ tally'.successes = tally.successes + ret'.added[1]
       /\ now' - initTime < size * interval => TallyMatches'
      ]_vars

\* eight calls in the first retention window, the last rejected by accept()
C20_Witness ==
    /\ ret.op = "doReq"
    /\ ret.accept.err = ErrServiceUnavailable
    /\ now - initTime < size * interval
    /\ now > 0
    /\ tally.calls = 8
    /\ TallyMatches

\* a success, a failure and a panic in the first retention window
C20_WitnessMixed ==
    /\ ret.op = "doReq"
    /\ ret.panicked
    /\ now - initTime < size * interval
    /\ tally.calls >= 3
    /\ tally.successes >= 1
    /\ offset # 0
    /\ TallyMatches

====
